---- MODULE Spec2Model ----
(***************************************************************************)
(* Model of the cloud-free mosaic task of the Data Cube UI                 *)
(* (apps/sample_geo_app/tasks.py): the orchestrator create_cloudfree_mosaic,*)
(* the chunk worker generate_TOOL_chunk, the handler error_with_message,   *)
(* and the Result / Query / Metadata records they share (models.py).       *)
(*                                                                         *)
(* The orchestrator is one sequential process whose position is pc.  Each  *)
(* (time group, geo chunk) pair is one celery task; the tasks run          *)
(* concurrently with the orchestrator and with each other.  The Result row *)
(* in the database (db) is distinct from the orchestrator's in-memory ORM  *)
(* object (result): result.save() writes every field of the object.        *)
(* shutil.rmtree is two steps (unlink what was listed, then rmdir), since   *)
(* a worker may write into the directory between the two.                  *)
(***************************************************************************)
EXTENDS Integers, Sequences, FiniteSets, TLC

\* ------------------------------------------------------------------ bounds
MaxAcq == 2         \* acquisitions the catalog may return
MaxGeo == 2         \* geographic chunks the planner may return
MaxUnits == 2       \* work units (time groups x geo chunks) of one query
MaxClean == 1       \* clean pixels of one time slice of one chunk
MaxCancels == 1     \* cancel requests of the user during one query
MaxRepeats == 1     \* repeat submissions of the same query by the same user
MaxFold == 2        \* time groups folded into one mosaic, pixel by pixel
MaxValue == 2       \* pixel values other than nodata are 1..MaxValue
MaxUsers == 2       \* users submitting queries
MaxParams == 2      \* distinct parameter sets of a query

\* ------------------------------------------------------- program constants
NoneVal == 0           \* None, for an option of processing_algorithms that is an integer or unset
UnsetStep == 10000
TimeChunks5 == 5
TimeSlices5 == 5
TimeSlices1 == 1
NoData == -9999

\* processing_algorithms: the options the model needs of every compositor.
processing_algorithms ==
    [ most_recent  |-> [time_chunks |-> TimeChunks5, time_slices_per_iteration |-> TimeSlices5,
                        reverse_time |-> TRUE,  chunk_combination_method |-> "fill_nodata"],
      least_recent |-> [time_chunks |-> TimeChunks5, time_slices_per_iteration |-> TimeSlices1,
                        reverse_time |-> FALSE, chunk_combination_method |-> "fill_nodata"],
      median_pixel |-> [time_chunks |-> NoneVal, time_slices_per_iteration |-> NoneVal,
                        reverse_time |-> FALSE, chunk_combination_method |-> "fill_nodata"],
      max_ndvi     |-> [time_chunks |-> TimeChunks5, time_slices_per_iteration |-> TimeSlices5,
                        reverse_time |-> FALSE, chunk_combination_method |-> "max_value"],
      min_ndvi     |-> [time_chunks |-> TimeChunks5, time_slices_per_iteration |-> TimeSlices5,
                        reverse_time |-> FALSE, chunk_combination_method |-> "min_value"] ]

Compositors == DOMAIN processing_algorithms

Units == (1..MaxAcq) \X (1..MaxGeo)

VARIABLES
    pc,                   \* position of create_cloudfree_mosaic
    compositor,           \* query.compositor
    queryRec,             \* the Query row: [exists, complete]
    metaRec,              \* the Metadata row: "none", "created", "final", "deleted"
    db,                   \* the Result rows stored for the query id (none or one)
    result,               \* the orchestrator's in-memory Result object
    acquisitions,         \* len(acquisitions); the dates are 1..acquisitions
    time_ranges,          \* the planner's time groups: sequence of sequences of dates
    nGeo,                 \* len(lat_ranges)
    tempDir,              \* base_temp_path + query_id exists
    tempFiles,            \* the geo_chunk files in it: set of paths
    artifacts,            \* output files written under base_result_path
    worker,               \* the celery task of each unit
    ti, gi,               \* the loop indices of the dispatch and join loops
    tiles,                \* tiles of the current time group (units, in join order)
    acquisition_metadata, \* the orchestrator's date -> clean_pixels map
    dataset_out,          \* the folds done so far: sequence of concatenated tile lists
    rmFrom,               \* the call site of the running rmtree
    ewm,                  \* the running error_with_message: [msg, reraise]
    raised,               \* an exception has left create_cloudfree_mosaic
    hist,                 \* history: what has been observed so far
    fold,                 \* the fold of time-group rasters into the mosaic, pixel by pixel
    conc,                 \* two concurrent invocations and the scratch directories they use
    loop,                 \* one chunk task's loop over its acquisition list, window by window
    mfin                  \* the metadata strings written at the end of a query

\* The variables of the task model proper, and those of the two side models.
taskVars == << pc, compositor, queryRec, metaRec, db, result, acquisitions, time_ranges, nGeo,
               tempDir, tempFiles, artifacts, worker, ti, gi, tiles, acquisition_metadata,
               dataset_out, rmFrom, ewm, raised, hist >>

auxVars == << fold, conc, loop, mfin >>

vars == << taskVars, auxVars >>

orchVars == << auxVars, compositor, queryRec, metaRec, acquisitions, time_ranges, nGeo, artifacts,
               ti, gi, tiles, acquisition_metadata, dataset_out >>

\* --------------------------------------------------------------- helpers
Options == processing_algorithms[compositor]

EmptyMap == [d \in {} |-> 0]

RECURSIVE SumOver(_, _)
SumOver(S, f) ==
    IF S = {} THEN 0
    ELSE LET x == CHOOSE y \in S : TRUE IN f[x] + SumOver(S \ {x}, f)

GetOr0(m, d) == IF d \in DOMAIN m THEN m[d] ELSE 0

IdleWorker == [st |-> "idle", time_index |-> 0, iteration_data |-> FALSE,
               meta |-> EmptyMap, ret |-> "pending"]

NGroups == Len(time_ranges)

\* The orchestrator's result variable before it is assigned.
NoResult == [status |-> "", total_scenes |-> 0, scenes_processed |-> 0, result_path |-> ""]

\* Status of the stored Result row, "" when there is none.
StoredStatus == IF db = {} THEN "" ELSE (CHOOSE r \in db : TRUE).status

\* Query.generate_result: the row a new query starts with.
generate_result == [status |-> "WAIT", total_scenes |-> 0, scenes_processed |-> 0,
                    result_path |-> ""]

\* ------------------------------------------------------------- the planner
\* All ways to cut n acquisitions into contiguous non-empty groups.
RECURSIVE Compositions(_)
Compositions(n) ==
    IF n = 0 THEN { <<>> }
    ELSE UNION { { <<k>> \o c : c \in Compositions(n - k) } : k \in 1..n }

\* The acquisition dates 1..n, oldest first, or newest first when reversed.
Sorted(n, rev) == [i \in 1..n |-> IF rev THEN n + 1 - i ELSE i]

RECURSIVE Chunks(_, _)
Chunks(list, lens) ==
    IF lens = <<>> THEN <<>>
    ELSE << SubSeq(list, 1, Head(lens)) >>
         \o Chunks(SubSeq(list, Head(lens) + 1, Len(list)), Tail(lens))

\* split_task: the time groups it may return for n acquisitions.  Without
\* time_chunks there is one group holding every acquisition.
split_task(n, opts) ==
    LET lens == IF opts.time_chunks = NoneVal THEN { <<n>> } ELSE Compositions(n)
    IN  { Chunks(Sorted(n, opts.reverse_time), l) : l \in lens }

\* The name of a unit's file without its chunk index.
geo_path_TimeOnly(u) == << "geo_chunk_", u[1] - 1, "_" >>

\* "/geo_chunk_" + str(time_num) + "_" + str(chunk_num) + ".nc" under the scratch
\* directory; the task of unit <<t, g>> is dispatched with the indices t-1, g-1.
geo_path(u) == << "geo_chunk_", u[1] - 1, "_", u[2] - 1 >>

\* ------------------------------------------------------- history tracking
\* hist.early: "held" while a cancel request made before any worker polled is
\* still the stored status, "lost" once a write has replaced it.
EarlyAfterWrite(newStatus) ==
    IF hist.early = "held" /\ StoredStatus = "CANCEL" /\ newStatus # "CANCEL"
    THEN "lost" ELSE hist.early

\* ------------------------------------------------------ error_with_message
GenericMessage == "There was an exception when handling this query."
NoAcquisitionsMessage == "There were no acquisitions for this parameter set."

\* Entry of error_with_message: os.path.exists decides whether rmtree runs.
EnterHandler(msg, reraise) ==
    /\ ewm' = [msg |-> msg, reraise |-> reraise]
    /\ pc' = IF tempDir THEN "rm_unlink" ELSE "ewm_set"
    /\ rmFrom' = IF tempDir THEN "ewm" ELSE rmFrom

\* result.status = "ERROR"; result.result_path = message; result.save()
EwmSet ==
    /\ pc = "ewm_set"
    /\ result' = [result EXCEPT !.status = "ERROR", !.result_path = ewm.msg]
    /\ db' = {result'}
    /\ raised' = ewm.reraise
    /\ hist' = [hist EXCEPT !.early = EarlyAfterWrite("ERROR")]
    /\ pc' = "done"
    /\ UNCHANGED << orchVars, tempDir, tempFiles, worker, rmFrom, ewm >>

\* ------------------------------------------------------------ shutil.rmtree
\* First step: every file listed in the directory is unlinked.
RmtreeUnlink ==
    /\ pc = "rm_unlink"
    /\ tempFiles' = {}
    /\ pc' = "rm_rmdir"
    /\ UNCHANGED << orchVars, db, result, tempDir, worker, rmFrom, ewm, raised, hist >>

\* Second step: os.rmdir, which raises OSError when a file has appeared since.
RmtreeRmdir ==
    /\ pc = "rm_rmdir"
    /\ IF tempFiles = {}
       THEN /\ tempDir' = FALSE
            /\ pc' = CASE rmFrom = "cancel" -> "cancel_delete"
                       [] rmFrom = "final"  -> "metafill"
                       [] OTHER             -> "ewm_set"
            /\ UNCHANGED << rmFrom, ewm, raised, hist >>
       ELSE IF rmFrom = "ewm"
            THEN \* raised inside the except clause: nothing catches it
                 /\ pc' = "done"
                 /\ raised' = TRUE
                 /\ UNCHANGED << tempDir, rmFrom, ewm, hist >>
            ELSE \* raised inside the try block
                 /\ EnterHandler(GenericMessage, TRUE)
                 /\ hist' = [hist EXCEPT !.fault = "rmtree"]
                 /\ UNCHANGED << tempDir, raised >>
    /\ UNCHANGED << orchVars, db, result, tempFiles, worker >>

\* ------------------------------------------------------- side models idle
FoldIdle == [data_vars |-> <<>>, groups |-> <<>>, k |-> 0, dataset_out |-> <<>>,
             raised |-> FALSE]

ConcIdle == [inv |-> <<>>, results |-> {}, dirs |-> {}, files |-> {}]

CursorIdle == [N |-> 0, gap |-> 0, lo |-> 0, hi |-> 0, time_index |-> 0, iterations |-> 0,
               fetched |-> <<>>, tallies |-> <<>>, iteration_data |-> FALSE,
               last |-> "none", ret |-> "pending"]

MetaIdle == [acquisition_metadata |-> <<>>, pixel_count |-> 0, step |-> "idle",
             dates |-> <<>>, acquisition_list |-> <<>>,
             clean_pixels_per_acquisition |-> <<>>,
             clean_pixel_percentages_per_acquisition |-> <<>>]

\* -------------------------------------------------- create_cloudfree_mosaic
InitTask ==
    /\ pc = "start"
    /\ compositor \in Compositors
    /\ queryRec = [exists |-> TRUE, complete |-> FALSE]
    /\ metaRec = "none"
    /\ db = {}
    /\ result = NoResult
    /\ acquisitions = 0
    /\ time_ranges = <<>>
    /\ nGeo = 0
    /\ tempDir = FALSE
    /\ tempFiles = {}
    /\ artifacts = {}
    /\ worker = [u \in Units |-> IdleWorker]
    /\ ti = 1
    /\ gi = 1
    /\ tiles = <<>>
    /\ acquisition_metadata = EmptyMap
    /\ dataset_out = <<>>
    /\ rmFrom = "none"
    /\ ewm = [msg |-> "", reraise |-> FALSE]
    /\ raised = FALSE
    /\ hist = [okSeen |-> FALSE, anyPolled |-> FALSE, early |-> "no", gotCancel |-> FALSE,
               fault |-> "none", cancels |-> 0, listed |-> FALSE, outOfOrder |-> FALSE,
               repeats |-> 0]

\* The task model: the two side models stay idle.
Init ==
    /\ InitTask
    /\ fold = FoldIdle
    /\ conc = ConcIdle
    /\ loop = CursorIdle
    /\ mfin = MetaIdle

\* result = query.generate_result(): the Result row is created with status WAIT.
GenerateResult ==
    /\ pc = "start"
    /\ result' = generate_result
    /\ db' = {result'}
    /\ pc' = "metadata"
    /\ UNCHANGED << orchVars, tempDir, tempFiles, worker, rmFrom, ewm, raised, hist >>

\* dc.get_scene_metadata and query.generate_metadata, before the try block.
GetMetadata ==
    /\ pc = "metadata"
    /\ \E found \in BOOLEAN :
         IF found
         THEN /\ metaRec' = "created"
              /\ pc' = "acquisitions"
              /\ UNCHANGED << rmFrom, ewm >>
         ELSE /\ EnterHandler(GenericMessage, FALSE)
              /\ UNCHANGED metaRec
    /\ UNCHANGED << auxVars, compositor, queryRec, acquisitions, time_ranges, nGeo, artifacts, ti, gi,
                    tiles, acquisition_metadata, dataset_out, db, result, tempDir, tempFiles,
                    worker, raised, hist >>

\* The emptiness test with its bound off by one: an empty list passes.
NoAcquisitions_OffByOne(n) == n < 0

\* if len(acquisitions) < 1
NoAcquisitions(n) == n < 1

\* dc.list_acquisition_dates and the check of its length.
ListAcquisitions ==
    /\ pc = "acquisitions"
    /\ \E n \in 0..MaxAcq :
         /\ acquisitions' = n
         /\ hist' = [hist EXCEPT !.listed = TRUE]
         /\ IF NoAcquisitions(n)
            THEN EnterHandler(NoAcquisitionsMessage, FALSE)
            ELSE /\ pc' = "plan"
                 /\ UNCHANGED << rmFrom, ewm >>
    /\ UNCHANGED << auxVars, compositor, queryRec, metaRec, time_ranges, nGeo, artifacts, ti, gi,
                    tiles, acquisition_metadata, dataset_out, db, result, tempDir, tempFiles,
                    worker, raised >>

\* split_task, then result.total_scenes = len(time_ranges) * len(lat_ranges),
\* set on the in-memory object only.
Plan ==
    /\ pc = "plan"
    /\ \E tr \in split_task(acquisitions, Options), ng \in 1..MaxGeo :
         /\ Len(tr) * ng <= MaxUnits
         /\ time_ranges' = tr
         /\ nGeo' = ng
         /\ result' = [result EXCEPT !.total_scenes = Len(tr) * ng]
    /\ pc' = "mkdir"
    /\ UNCHANGED << auxVars, compositor, queryRec, metaRec, acquisitions, artifacts, ti, gi, tiles,
                    acquisition_metadata, dataset_out, db, tempDir, tempFiles, worker,
                    rmFrom, ewm, raised, hist >>

\* os.mkdir(base_temp_path + query.query_id) unless it exists.
Mkdir ==
    /\ pc = "mkdir"
    /\ tempDir' = TRUE
    /\ pc' = "dispatch"
    /\ ti' = 1
    /\ gi' = 1
    /\ UNCHANGED << auxVars, compositor, queryRec, metaRec, acquisitions, time_ranges, nGeo, artifacts,
                    tiles, acquisition_metadata, dataset_out, db, result, tempFiles, worker,
                    rmFrom, ewm, raised, hist >>

\* The dispatch loop queuing only the tasks of the first time group.
Dispatch_FirstGroupOnly ==
    /\ pc = "dispatch"
    /\ IF ti > 1
       THEN /\ pc' = IF NGroups = 0 THEN "post" ELSE "get"
            /\ ti' = 1
            /\ gi' = 1
            /\ UNCHANGED worker
       ELSE /\ worker' = [worker EXCEPT ![<<ti, gi>>] = [IdleWorker EXCEPT !.st = "run"]]
            /\ IF gi < nGeo
               THEN /\ gi' = gi + 1
                    /\ ti' = ti
               ELSE /\ gi' = 1
                    /\ ti' = ti + 1
            /\ pc' = "dispatch"
    /\ UNCHANGED << auxVars, compositor, queryRec, metaRec, acquisitions, time_ranges, nGeo, artifacts,
                    tiles, acquisition_metadata, dataset_out, db, result, tempDir, tempFiles,
                    rmFrom, ewm, raised, hist >>

\* One .delay(...) of the dispatch loops: the chunk task of this unit is queued
\* and may start at once.  After the last one the join loops begin.
Dispatch ==
    /\ pc = "dispatch"
    /\ IF ti > NGroups
       THEN /\ pc' = IF NGroups = 0 THEN "post" ELSE "get"
            /\ ti' = 1
            /\ gi' = 1
            /\ UNCHANGED worker
       ELSE /\ worker' = [worker EXCEPT ![<<ti, gi>>] = [IdleWorker EXCEPT !.st = "run"]]
            /\ IF gi < nGeo
               THEN /\ gi' = gi + 1
                    /\ ti' = ti
               ELSE /\ gi' = 1
                    /\ ti' = ti + 1
            /\ pc' = "dispatch"
    /\ UNCHANGED << auxVars, compositor, queryRec, metaRec, acquisitions, time_ranges, nGeo, artifacts,
                    tiles, acquisition_metadata, dataset_out, db, result, tempDir, tempFiles,
                    rmFrom, ewm, raised, hist >>

\* tile = t.get() and the tests of the tile.  A failed task re-raises here;
\* a None tile raises TypeError at tile[0].
Get ==
    /\ pc = "get"
    /\ LET ret == worker[<<ti, gi>>].ret IN
       /\ ret # "pending"
       /\ CASE ret = "CANCEL" ->
                 /\ pc' = "rm_unlink"
                 /\ rmFrom' = "cancel"
                 /\ hist' = [hist EXCEPT !.gotCancel = TRUE]
                 /\ UNCHANGED << tiles, ewm >>
            [] ret \in {"FAILED", "None"} ->
                 /\ EnterHandler(GenericMessage, TRUE)
                 /\ hist' = [hist EXCEPT !.fault = "get"]
                 /\ UNCHANGED tiles
            [] ret = "Empty" ->
                 /\ pc' = "save"
                 /\ UNCHANGED << tiles, rmFrom, ewm, hist >>
            [] OTHER ->
                 /\ tiles' = Append(tiles, <<ti, gi>>)
                 /\ pc' = "save"
                 /\ UNCHANGED << rmFrom, ewm, hist >>
    /\ UNCHANGED << auxVars, compositor, queryRec, metaRec, acquisitions, time_ranges, nGeo, artifacts,
                    ti, gi, acquisition_metadata, dataset_out, db, result, tempDir, tempFiles,
                    worker, raised >>

\* The progress update without the increment.
Increment_Skipped(r) == r

\* result.scenes_processed += 1
Increment(r) == [r EXCEPT !.scenes_processed = r.scenes_processed + 1]

\* The inner join loop left after the first result of a group.
MoreChunks_Never(g) == FALSE

\* for t in geographic_group: another task of the group remains to be awaited.
MoreChunks(g) == g < nGeo

\* result.scenes_processed += 1; result.save(): every field of the in-memory
\* object is written, the status included.
SaveProgress ==
    /\ pc = "save"
    /\ result' = Increment(result)
    /\ db' = {result'}
    /\ hist' = [hist EXCEPT !.early = EarlyAfterWrite(result.status)]
    /\ IF MoreChunks(gi)
       THEN /\ gi' = gi + 1
            /\ pc' = "get"
       ELSE /\ gi' = gi
            /\ pc' = "merge"
    /\ UNCHANGED << auxVars, compositor, queryRec, metaRec, acquisitions, time_ranges, nGeo, artifacts,
                    ti, tiles, acquisition_metadata, dataset_out, tempDir, tempFiles, worker,
                    rmFrom, ewm, raised >>

\* The merge with assignment in place of +=: a later tile overwrites the count.
MergeMetadata_Overwrite(acc, m) ==
    [d \in DOMAIN acc \cup DOMAIN m |-> IF d \in DOMAIN m THEN m[d] ELSE acc[d]]

\* acquisition_metadata[date]['clean_pixels'] += ... or a new entry.
MergeMetadata(acc, m) ==
    [d \in DOMAIN acc \cup DOMAIN m |->
        IF d \in DOMAIN acc
        THEN IF d \in DOMAIN m THEN acc[d] + m[d] ELSE acc[d]
        ELSE m[d]]

\* for tile in tiles: merge tile[1] into acquisition_metadata.
RECURSIVE MergeTiles(_, _)
MergeTiles(acc, ts) ==
    IF ts = <<>> THEN acc
    ELSE MergeTiles(MergeMetadata(acc, worker[Head(ts)].meta), Tail(ts))

\* The tiles concatenated in the order their results were awaited.
Reversed_Identity(sq) == sq

\* reversed(xr_tiles)
RECURSIVE Reversed(_)
Reversed(sq) == IF sq = <<>> THEN <<>> ELSE Append(Reversed(Tail(sq)), Head(sq))

\* After a time group's results: merge the metadata, open and concatenate the
\* tiles (xr.concat raises on an empty list), fold into dataset_out.
Merge ==
    /\ pc = "merge"
    /\ IF tiles = <<>> \/ \E i \in 1..Len(tiles) : geo_path(tiles[i]) \notin tempFiles
       THEN /\ EnterHandler(GenericMessage, TRUE)
            /\ hist' = [hist EXCEPT !.fault = IF tiles = <<>> THEN "empty_group" ELSE "merge"]
            /\ UNCHANGED << ti, gi, tiles, acquisition_metadata, dataset_out >>
       ELSE /\ acquisition_metadata' = MergeTiles(acquisition_metadata, tiles)
            /\ dataset_out' = Append(dataset_out, Reversed(tiles))
            /\ tiles' = <<>>
            /\ IF ti < NGroups
               THEN /\ ti' = ti + 1
                    /\ gi' = 1
                    /\ pc' = "get"
               ELSE /\ UNCHANGED << ti, gi >>
                    /\ pc' = "post"
            /\ UNCHANGED << rmFrom, ewm, hist >>
    /\ UNCHANGED << auxVars, compositor, queryRec, metaRec, acquisitions, time_ranges, nGeo, artifacts,
                    db, result, tempDir, tempFiles, worker, raised >>

\* latitude = dataset_out.latitude ... then shutil.rmtree of the scratch directory.
Post ==
    /\ pc = "post"
    /\ IF dataset_out = <<>>
       THEN /\ EnterHandler(GenericMessage, TRUE)
            /\ hist' = [hist EXCEPT !.fault = "post"]
       ELSE /\ pc' = "rm_unlink"
            /\ rmFrom' = "final"
            /\ UNCHANGED << ewm, hist >>
    /\ UNCHANGED << orchVars, db, result, tempDir, tempFiles, worker, raised >>

\* The metadata strings and clean pixel totals; meta.save().
FillMetadata ==
    /\ pc = "metafill"
    /\ metaRec' = "final"
    /\ pc' = "tif"
    /\ UNCHANGED << auxVars, compositor, queryRec, acquisitions, time_ranges, nGeo, artifacts, ti, gi,
                    tiles, acquisition_metadata, dataset_out, db, result, tempDir, tempFiles,
                    worker, rmFrom, ewm, raised, hist >>

\* save_to_geotiff, dataset_out.to_netcdf, create_rgb_png_from_tiff, one per step.
WriteArtifact ==
    /\ pc \in {"tif", "netcdf", "png"}
    /\ artifacts' = artifacts \cup {pc}
    /\ pc' = CASE pc = "tif" -> "netcdf" [] pc = "netcdf" -> "png" [] OTHER -> "finish"
    /\ UNCHANGED << auxVars, compositor, queryRec, metaRec, acquisitions, time_ranges, nGeo, ti, gi,
                    tiles, acquisition_metadata, dataset_out, db, result, tempDir, tempFiles,
                    worker, rmFrom, ewm, raised, hist >>

\* result.total_scenes = len(acquisitions)
FinalTotal(r) == [r EXCEPT !.total_scenes = acquisitions]

\* The result paths, result.status = "OK", result.total_scenes, result.save().
Finish ==
    /\ pc = "finish"
    /\ result' = FinalTotal([result EXCEPT !.status = "OK", !.result_path = "png_path"])
    /\ db' = {result'}
    /\ hist' = [hist EXCEPT !.okSeen = TRUE, !.early = EarlyAfterWrite("OK")]
    /\ pc' = "complete"
    /\ UNCHANGED << orchVars, tempDir, tempFiles, worker, rmFrom, ewm, raised >>

\* The save of the Query object as it was read at the start, complete unset.
CompletedQuery_Stale(q) == [q EXCEPT !.complete = FALSE]

\* query.complete = True, then saved.
CompletedQuery(q) == [q EXCEPT !.complete = TRUE]

\* query.complete = True; query.query_end = now; query.save()
Complete ==
    /\ pc = "complete"
    /\ queryRec' = CompletedQuery(queryRec)
    /\ pc' = "done"
    /\ UNCHANGED << auxVars, compositor, metaRec, acquisitions, time_ranges, nGeo, artifacts, ti, gi,
                    tiles, acquisition_metadata, dataset_out, db, result, tempDir, tempFiles,
                    worker, rmFrom, ewm, raised, hist >>

\* query.delete(); meta.delete(); result.delete(); return
CancelDelete ==
    /\ pc = "cancel_delete"
    /\ queryRec' = [queryRec EXCEPT !.exists = FALSE]
    /\ metaRec' = "deleted"
    /\ db' = {}
    /\ pc' = "done"
    /\ UNCHANGED << auxVars, compositor, acquisitions, time_ranges, nGeo, artifacts, ti, gi, tiles,
                    acquisition_metadata, dataset_out, result, tempDir, tempFiles, worker,
                    rmFrom, ewm, raised, hist >>

\* The statements of the try block that call a collaborator and may raise.
TryPoints == {"acquisitions", "plan", "mkdir", "dispatch", "get", "save", "merge", "post",
              "metafill", "tif", "netcdf", "png", "finish", "complete"}

\* An exception raised by the statement at pc, before its effect.  Inside the
\* try block the except clause calls error_with_message and re-raises; the
\* metadata lookup precedes the try block, so its exception leaves the task.
Raise ==
    /\ pc \in TryPoints \cup {"metadata"}
    /\ hist' = [hist EXCEPT !.fault = pc]
    /\ IF pc = "metadata"
       THEN /\ pc' = "done"
            /\ raised' = TRUE
            /\ UNCHANGED << rmFrom, ewm >>
       ELSE /\ EnterHandler(GenericMessage, TRUE)
            /\ UNCHANGED raised
    /\ UNCHANGED << orchVars, db, result, tempDir, tempFiles, worker >>

\* ------------------------------------------------------ generate_TOOL_chunk
acquisition_list(u) == time_ranges[u[1]]

\* The cursor's advance: time_slices_per_iteration, or 10000 when it is None.
Step(opts) ==
    IF opts.time_slices_per_iteration # NoneVal THEN opts.time_slices_per_iteration
    ELSE UnsetStep

\* Number of acquisitions in the window fetched at cursor t of a list of length len.
WindowSize(opts, t, len) ==
    IF opts.time_slices_per_iteration # NoneVal /\ t + opts.time_slices_per_iteration - 1 < len
    THEN opts.time_slices_per_iteration
    ELSE len - t

\* The tally loop: time slice k of the clear mask is counted for the date
\* acquisition_list[time_index + k].
Tally(meta, acq, t, counts) ==
    LET slices == DOMAIN counts
        dates == { acq[t + k] : k \in slices }
    IN  [d \in DOMAIN meta \cup dates |->
            GetOr0(meta, d) + SumOver({ k \in slices : acq[t + k] = d }, counts)]

\* The poll without the test of the status: a CANCEL is not seen.
Poll_IgnoreCancel == IF Cardinality(db) # 1 THEN "gone" ELSE "go"

\* The poll of the Result row at the top of the loop: "gone" when
\* Result.objects.get raises, "cancel" when the status is CANCEL.
Poll ==
    IF Cardinality(db) # 1 THEN "gone"
    ELSE IF StoredStatus = "CANCEL" THEN "cancel"
    ELSE "go"

\* One pass of the while loop: poll, fetch, and either skip the window
\* (no cf_mask), fail (the fetch raises) or tally and fold it.
WorkerIterate(u) ==
    /\ worker[u].st = "run"
    /\ worker[u].time_index < Len(acquisition_list(u))
    /\ LET w == worker[u]
           acq == acquisition_list(u)
           size == WindowSize(Options, w.time_index, Len(acq))
       IN  CASE Poll = "gone" ->
                  worker' = [worker EXCEPT ![u].st = "done", ![u].ret = "None"]
             [] Poll = "cancel" ->
                  worker' = [worker EXCEPT ![u].st = "done", ![u].ret = "CANCEL"]
             [] OTHER ->
                  \/ worker' = [worker EXCEPT ![u].time_index = w.time_index + Step(Options)]
                  \/ worker' = [worker EXCEPT ![u].st = "done", ![u].ret = "FAILED"]
                  \/ \E counts \in [1..size -> 0..MaxClean] :
                       worker' = [worker EXCEPT
                                    ![u].meta = Tally(w.meta, acq, w.time_index, counts),
                                    ![u].iteration_data = TRUE,
                                    ![u].time_index = w.time_index + Step(Options)]
    /\ hist' = [hist EXCEPT !.anyPolled = TRUE]
    /\ UNCHANGED << pc, orchVars, db, result, tempDir, tempFiles, rmFrom, ewm, raised >>

\* A task dispatched before u is still running (u completes out of dispatch order).
RunningBefore(u) ==
    \E v \in Units : /\ worker[v].st = "run"
                     /\ v[1] < u[1] \/ (v[1] = u[1] /\ v[2] < u[2])

\* After the loop: [None, None] for an empty chunk, else iteration_data.to_netcdf
\* (which fails when the directory is gone) and [geo_path, acquisition_metadata].
WorkerFinish(u) ==
    /\ worker[u].st = "run"
    /\ worker[u].time_index >= Len(acquisition_list(u))
    /\ IF ~worker[u].iteration_data
       THEN /\ worker' = [worker EXCEPT ![u].st = "done", ![u].ret = "Empty"]
            /\ UNCHANGED tempFiles
       ELSE IF tempDir
            THEN /\ tempFiles' = tempFiles \cup {geo_path(u)}
                 /\ worker' = [worker EXCEPT ![u].st = "done", ![u].ret = "Tile"]
            ELSE /\ worker' = [worker EXCEPT ![u].st = "done", ![u].ret = "FAILED"]
                 /\ UNCHANGED tempFiles
    /\ hist' = [hist EXCEPT !.outOfOrder = hist.outOfOrder \/ RunningBefore(u)]
    /\ UNCHANGED << pc, orchVars, db, result, tempDir, rmFrom, ewm, raised >>

\* ------------------------------------------------------- the cancel request
\* The user's cancel request: the stored status of a waiting result becomes CANCEL.
CancelRequest ==
    /\ hist.cancels < MaxCancels
    /\ StoredStatus = "WAIT"
    /\ db' = { [r EXCEPT !.status = "CANCEL"] : r \in db }
    /\ hist' = [hist EXCEPT !.cancels = hist.cancels + 1,
                            !.early = IF ~hist.anyPolled /\ hist.early = "no" THEN "held"
                                      ELSE hist.early]
    /\ UNCHANGED << pc, orchVars, result, tempDir, tempFiles, worker, rmFrom, ewm, raised >>

\* ------------------------------------------------------- the repeat query
\* The task started for a second Query row of the same query_id and user_id
\* while this one is processed: queries.count() > 1, so it marks every matching
\* Query complete when a Result of the query id exists, and returns.
RepeatQuery ==
    /\ hist.repeats < MaxRepeats
    /\ pc # "start"
    /\ queryRec.exists
    /\ queryRec' = IF db # {} THEN [queryRec EXCEPT !.complete = TRUE] ELSE queryRec
    /\ hist' = [hist EXCEPT !.repeats = hist.repeats + 1]
    /\ UNCHANGED << pc, auxVars, compositor, metaRec, acquisitions, time_ranges, nGeo, artifacts, ti,
                    gi, tiles, acquisition_metadata, dataset_out, db, result, tempDir,
                    tempFiles, worker, rmFrom, ewm, raised >>

\* ------------------------------------------------------------ specification
Next ==
    \/ GenerateResult
    \/ GetMetadata
    \/ ListAcquisitions
    \/ Plan
    \/ Mkdir
    \/ Dispatch
    \/ Get
    \/ SaveProgress
    \/ Merge
    \/ Post
    \/ FillMetadata
    \/ WriteArtifact
    \/ Finish
    \/ Complete
    \/ CancelDelete
    \/ RmtreeUnlink
    \/ RmtreeRmdir
    \/ EwmSet
    \/ Raise
    \/ CancelRequest
    \/ RepeatQuery
    \/ \E u \in Units : WorkerIterate(u)
    \/ \E u \in Units : WorkerFinish(u)

Spec == Init /\ [][Next]_vars

\* The scheduling the task queue gives: the orchestrator's own statements run
\* to completion and every queued chunk task is run to its return.  Exceptions
\* and the user's cancel request are not forced to happen.
Orchestrator ==
    \/ GenerateResult \/ GetMetadata \/ ListAcquisitions \/ Plan \/ Mkdir \/ Dispatch \/ Get
    \/ SaveProgress \/ Merge \/ Post \/ FillMetadata \/ WriteArtifact \/ Finish \/ Complete
    \/ CancelDelete \/ RmtreeUnlink \/ RmtreeRmdir \/ EwmSet

FairSpec ==
    /\ Spec
    /\ WF_vars(Orchestrator)
    /\ \A u \in Units : WF_vars(WorkerIterate(u) \/ WorkerFinish(u))

\* ------------------------------------------------ the fold, pixel by pixel
\* A tile is the result of one geo chunk; its block of rows is one pixel here,
\* with a value per band.  A raster is what xr.concat makes of the tiles of a
\* time group: the chunk each row block came from (its latitude coordinates)
\* and, per band, the values in the same order.
Values == {NoData} \cup (1..MaxValue)

Bands == {"ndvi", "red"}

\* list(dataset_out.data_vars): the order in which the bands are iterated.
BandOrders == { <<"ndvi", "red">>, <<"red", "ndvi">> }

Tiles == [chunk : 1..MaxGeo, px : [Bands -> Values]]

\* The non-Empty results of a time group in join order (ascending geo chunk).
TileLists ==
    UNION { { tl \in [1..n -> Tiles] : \A i \in 1..(n - 1) : tl[i].chunk < tl[i + 1].chunk }
            : n \in 0..MaxGeo }

\* xr.concat(tiles, dim='latitude'): positions follow the order of the list.
xr_concat(tl) ==
    [coords |-> [i \in 1..Len(tl) |-> tl[i].chunk],
     px     |-> [b \in Bands |-> [i \in 1..Len(tl) |-> tl[i].px[b]]]]

\* target[mask] = source[mask] on numpy arrays: by position, whatever the
\* coordinates of the two arrays are.
AssignWhere(target, source, mask) ==
    [i \in 1..Len(target) |-> IF mask[i] THEN source[i] ELSE target[i]]

\* The boolean index and the arrays have one shape (else numpy raises).
SameShape(a, b) == Len(a.coords) = Len(b.coords)

\* for key in list(dataset_out.data_vars) of fill_nodata: the mask is taken
\* from the band itself, before its assignment.
RECURSIVE fill_nodata_keys(_, _, _)
fill_nodata_keys(dataset, out, keys) ==
    IF keys = <<>> THEN out
    ELSE LET key == Head(keys)
             mask == [i \in 1..Len(out.coords) |-> out.px[key][i] = NoData]
         IN  fill_nodata_keys(dataset,
                 [out EXCEPT !.px[key] = AssignWhere(@, dataset.px[key], mask)], Tail(keys))

\* The new dataset replacing the intermediate.
fill_nodata_Overwrite(dataset, dataset_intermediate) == dataset

\* fill_nodata(dataset, dataset_intermediate): <<>> is None.
fill_nodata(dataset, dataset_intermediate) ==
    IF dataset_intermediate = <<>> THEN dataset
    ELSE fill_nodata_keys(dataset, dataset_intermediate[1], fold.data_vars)

\* The loop of max_value: the mask compares the ndvi of the new dataset with
\* the ndvi of dataset_out as it is when this band is reached.
RECURSIVE max_value_keys(_, _, _)
max_value_keys(dataset, out, keys) ==
    IF keys = <<>> THEN out
    ELSE LET key == Head(keys)
             mask == [i \in 1..Len(out.coords) |-> dataset.px["ndvi"][i] > out.px["ndvi"][i]]
         IN  max_value_keys(dataset,
                 [out EXCEPT !.px[key] = AssignWhere(@, dataset.px[key], mask)], Tail(keys))

\* The loop of min_value.
RECURSIVE min_value_keys(_, _, _)
min_value_keys(dataset, out, keys) ==
    IF keys = <<>> THEN out
    ELSE LET key == Head(keys)
             mask == [i \in 1..Len(out.coords) |-> dataset.px["ndvi"][i] < out.px["ndvi"][i]]
         IN  min_value_keys(dataset,
                 [out EXCEPT !.px[key] = AssignWhere(@, dataset.px[key], mask)], Tail(keys))

\* max_value comparing with < instead of >.
max_value_Less(dataset, dataset_intermediate) ==
    IF dataset_intermediate = <<>> THEN dataset
    ELSE min_value_keys(dataset, dataset_intermediate[1], fold.data_vars)

\* max_value(dataset, dataset_intermediate)
max_value(dataset, dataset_intermediate) ==
    IF dataset_intermediate = <<>> THEN dataset
    ELSE max_value_keys(dataset, dataset_intermediate[1], fold.data_vars)

\* min_value(dataset, dataset_intermediate)
min_value(dataset, dataset_intermediate) ==
    IF dataset_intermediate = <<>> THEN dataset
    ELSE min_value_keys(dataset, dataset_intermediate[1], fold.data_vars)

\* Every compositor combining with max_value.
chunk_combination_method_MaxValue(dataset, dataset_intermediate) ==
    max_value(dataset, dataset_intermediate)

\* processing_options['chunk_combination_method'](dataset, dataset_out)
chunk_combination_method(dataset, dataset_intermediate) ==
    CASE Options.chunk_combination_method = "fill_nodata" ->
             fill_nodata(dataset, dataset_intermediate)
      [] Options.chunk_combination_method = "max_value" ->
             max_value(dataset, dataset_intermediate)
      [] Options.chunk_combination_method = "min_value" ->
             min_value(dataset, dataset_intermediate)

\* full_dataset of time group j: xr.concat(reversed(xr_tiles), dim='latitude')
Raster(j) == xr_concat(Reversed(fold.groups[j]))

\* The statements of a time group's fold raise: xr.concat of no tile, or a
\* boolean index whose shape is not the array's.
FoldRaises(j) ==
    \/ fold.groups[j] = <<>>
    \/ fold.dataset_out # <<>> /\ ~SameShape(Raster(j), fold.dataset_out[1])

FoldInit ==
    /\ InitTask
    /\ conc = ConcIdle
    /\ loop = CursorIdle
    /\ mfin = MetaIdle
    /\ fold \in { [data_vars |-> o, groups |-> gs, k |-> 0, dataset_out |-> <<>>,
                   raised |-> FALSE]
                  : o \in BandOrders, gs \in UNION { [1..n -> TileLists] : n \in 1..MaxFold } }

\* One round of the outer join loop after its results are in: concatenate the
\* tiles of the group and combine the raster with dataset_out.
FoldGroup ==
    /\ ~fold.raised
    /\ fold.k < Len(fold.groups)
    /\ ~FoldRaises(fold.k + 1)
    /\ fold' = [fold EXCEPT !.k = fold.k + 1,
                  !.dataset_out = << chunk_combination_method(Raster(fold.k + 1),
                                                              fold.dataset_out) >>]
    /\ UNCHANGED << taskVars, conc, loop, mfin >>

\* The same round raising: the query ends in the handler, without a mosaic.
FoldRaise ==
    /\ ~fold.raised
    /\ fold.k < Len(fold.groups)
    /\ FoldRaises(fold.k + 1)
    /\ fold' = [fold EXCEPT !.raised = TRUE]
    /\ UNCHANGED << taskVars, conc, loop, mfin >>

FoldNext == FoldGroup \/ FoldRaise

FoldSpec == FoldInit /\ [][FoldNext]_vars

\* ------------------------------------------- two concurrent invocations
\* Two Query rows submitted at the same time, and the task started for each:
\* what each invocation and its chunk worker do to the Result rows and to the
\* scratch directories under base_temp_path.  params stands for the dates, the
\* bounding box, platform, product, query_type and animated_product.
Invocations == DOMAIN conc.inv

Queries == [user_id : 1..MaxUsers, params : 1..MaxParams]

\* Query.generate_query_id: built from the parameters; user_id is not part of it.
generate_query_id(q) == << q.params >>

\* base_temp_path + query.query_id of invocation i.
Path(i) == generate_query_id(conc.inv[i].query)

\* Query.objects.filter(query_id=query_id, user_id=user_id).count() > 1
RepeatOf(i) ==
    \E j \in Invocations :
        /\ j # i
        /\ generate_query_id(conc.inv[j].query) = generate_query_id(conc.inv[i].query)
        /\ conc.inv[j].query.user_id = conc.inv[i].query.user_id

\* Result.objects.get(query_id=...) of the chunk worker finds exactly one row.
OneResult(i) == Cardinality({ r \in conc.results : r[1] = Path(i) }) = 1

FilesIn(d) == { f \in conc.files : f[1] = d }

\* shutil.rmtree(d): the directory and every file in it.
Removed(d) == [conc EXCEPT !.dirs = conc.dirs \ {d}, !.files = conc.files \ FilesIn(d)]

At(c, i, where) == [c EXCEPT !.inv[i].pc = where]

ConcInit ==
    /\ InitTask
    /\ fold = FoldIdle
    /\ loop = CursorIdle
    /\ mfin = MetaIdle
    /\ conc \in { [inv |-> << [query |-> q1, pc |-> "start", tile |-> "pending"],
                            [query |-> q2, pc |-> "start", tile |-> "pending"] >>,
                   results |-> {}, dirs |-> {}, files |-> {}]
                  : q1 \in Queries, q2 \in Queries }

\* The start of the task: the repeat query returns, any other creates its Result.
ConcStart(i) ==
    /\ conc.inv[i].pc = "start"
    /\ conc' = IF RepeatOf(i) THEN At(conc, i, "returned")
               ELSE At([conc EXCEPT !.results = conc.results \cup {<< Path(i), i >>}], i, "mkdir")
    /\ UNCHANGED << taskVars, fold, loop, mfin >>

\* if not os.path.exists(base_temp_path + query.query_id): os.mkdir(...)
ConcMkdir(i) ==
    /\ conc.inv[i].pc = "mkdir"
    /\ conc' = At([conc EXCEPT !.dirs = conc.dirs \cup {Path(i)}], i, "chunk")
    /\ UNCHANGED << taskVars, fold, loop, mfin >>

\* The chunk worker and the t.get() of its result: without exactly one Result
\* row the worker returns None and tile[0] raises; to_netcdf into a missing
\* directory raises; else geo_chunk_<t>_<c>.nc is written, over any file of
\* that name.
ConcChunk(i) ==
    /\ conc.inv[i].pc = "chunk"
    /\ conc' = IF ~OneResult(i)
               THEN At([conc EXCEPT !.inv[i].tile = "None"], i, "handler")
               ELSE IF Path(i) \notin conc.dirs
               THEN At([conc EXCEPT !.inv[i].tile = "FAILED"], i, "handler")
               ELSE At([conc EXCEPT !.inv[i].tile = "Tile",
                                    !.files = (conc.files \ FilesIn(Path(i)))
                                                  \cup {<< Path(i), i >>}], i, "rmtree")
    /\ UNCHANGED << taskVars, fold, loop, mfin >>

\* xr.open_dataset of the tile, then shutil.rmtree of the scratch directory.
ConcRmtree(i) ==
    /\ conc.inv[i].pc = "rmtree"
    /\ conc' = IF FilesIn(Path(i)) = {}
               THEN At(conc, i, "handler")
               ELSE At(Removed(Path(i)), i, "done")
    /\ UNCHANGED << taskVars, fold, loop, mfin >>

\* error_with_message: the directory is removed if it exists.
ConcHandler(i) ==
    /\ conc.inv[i].pc = "handler"
    /\ conc' = At(IF Path(i) \in conc.dirs THEN Removed(Path(i)) ELSE conc, i, "error")
    /\ UNCHANGED << taskVars, fold, loop, mfin >>

ConcNext ==
    \E i \in Invocations :
        ConcStart(i) \/ ConcMkdir(i) \/ ConcChunk(i) \/ ConcRmtree(i) \/ ConcHandler(i)

ConcSpec == ConcInit /\ [][ConcNext]_vars

\* ---------------------------------------- the chunk task's loop, by windows
\* One generate_TOOL_chunk task alone, with the acquisition times kept: the
\* query's acquisitions are the dates 1..N, date d taken at d * gap seconds,
\* and the task's acquisition_list is the dates lo..hi (newest first when the
\* compositor reverses time).
MaxDates == 6       \* acquisitions of the query, when they are few
MaxGap == 2         \* seconds between two consecutive acquisitions

\* The time of acquisition d, in seconds.
Time(d) == d * loop.gap

\* len(acquisition_list)
LoopLen == loop.hi - loop.lo + 1

\* acquisition_list[i], 0-based; a negative i counts from the end.
ListAt(i) ==
    LET j == IF i < 0 THEN LoopLen + i ELSE i
    IN  IF Options.reverse_time THEN loop.hi - j ELSE loop.lo + j

\* start, end and time_range of the window at cursor t.
time_range(t) ==
    LET n == Options.time_slices_per_iteration
        start == IF Options.reverse_time THEN Time(ListAt(t)) + 1 ELSE Time(ListAt(t))
        end == IF n # NoneVal /\ t + n - 1 < LoopLen
               THEN Time(ListAt(t + n - 1))
               ELSE IF Options.reverse_time THEN Time(ListAt(-1)) ELSE Time(ListAt(-1)) + 1
    IN  IF Options.reverse_time THEN << end, start >> ELSE << start, end >>

\* dc.get_dataset_by_extent(time=r): the acquisitions of the product taken
\* within the range r, both ends included.
Slices(r) == { d \in 1..loop.N : r[1] <= Time(d) /\ Time(d) <= r[2] }

\* The advance of a skipped window that is one position long.
SkipStep_One(opts) == 1

\* The cursor's advance when the window has no cf_mask.
SkipStep(opts) ==
    IF opts.time_slices_per_iteration # NoneVal THEN opts.time_slices_per_iteration
    ELSE UnsetStep

\* The task starts with the cursor at 0, no intermediate and no metadata.
CursorInit ==
    /\ InitTask
    /\ fold = FoldIdle
    /\ conc = ConcIdle
    /\ mfin = MetaIdle
    /\ \E n \in 1..MaxDates \cup (IF Options.time_slices_per_iteration = NoneVal
                                  THEN {UnsetStep, UnsetStep + 1} ELSE {}),
          g \in 1..MaxGap :
         \E grp \in IF Options.time_chunks = NoneVal THEN { << 1, n >> }
                     ELSE { << l, h >> : l \in 1..n, h \in 1..n } :
            /\ grp[1] <= grp[2]
            /\ loop = [N |-> n, gap |-> g, lo |-> grp[1], hi |-> grp[2], time_index |-> 0,
                       iterations |-> 0, fetched |-> <<>>, tallies |-> <<>>,
                       iteration_data |-> FALSE, last |-> "none", ret |-> "pending"]

\* One pass of the loop whose window has no cf_mask: the cursor advances and
\* the loop continues.
CursorSkip ==
    /\ loop.ret = "pending"
    /\ loop.time_index < LoopLen
    /\ loop' = [loop EXCEPT !.fetched = Append(@, time_range(loop.time_index)),
                            !.iterations = @ + 1,
                            !.last = "skip",
                            !.time_index = @ + SkipStep(Options)]
    /\ UNCHANGED << taskVars, fold, conc, mfin >>

\* One pass of the loop whose window has a cf_mask: every time slice k of the
\* fetched data is counted for acquisition_list[time_index + k] (an index
\* past the end of the list raises), the window is folded and the cursor
\* advances.
CursorFold ==
    /\ loop.ret = "pending"
    /\ loop.time_index < LoopLen
    /\ LET r == time_range(loop.time_index)
           shape == Cardinality(Slices(r))
       IN  IF loop.time_index + shape - 1 >= LoopLen
           THEN loop' = [loop EXCEPT !.fetched = Append(@, r),
                                     !.iterations = @ + 1,
                                     !.last = "raise",
                                     !.ret = "FAILED"]
           ELSE loop' = [loop EXCEPT !.fetched = Append(@, r),
                                     !.iterations = @ + 1,
                                     !.tallies = Append(@, [at |-> loop.time_index,
                                                            shape |-> shape]),
                                     !.iteration_data = TRUE,
                                     !.last = "fold",
                                     !.time_index = @ + Step(Options)]
    /\ UNCHANGED << taskVars, fold, conc, mfin >>

\* After the loop: [None, None] without an intermediate, else the tile.
CursorFinish ==
    /\ loop.ret = "pending"
    /\ loop.time_index >= LoopLen
    /\ loop' = [loop EXCEPT !.ret = IF loop.iteration_data THEN "Tile" ELSE "Empty"]
    /\ UNCHANGED << taskVars, fold, conc, mfin >>

CursorNext == CursorSkip \/ CursorFold \/ CursorFinish

CursorSpec == CursorInit /\ [][CursorNext]_vars

\* ------------------------------------------ the metadata strings, at the end
\* Lines 283-297 alone, from the merged acquisition_metadata of a query that
\* reached them.  An acquisition time is << day, second of the day >>; a
\* string is a sequence of tokens << kind, a, b >>.
MaxDays == 2        \* calendar days with acquisitions
MaxSeconds == 2     \* acquisition times within one day
MaxCount == 2       \* merged clean pixels of one acquisition
MaxPixels == 2      \* meta.pixel_count

Timestamps == (1..MaxDays) \X (1..MaxSeconds)

Comma == << ",", 0, 0 >>

\* date.strftime("%m/%d/%Y"): the calendar day, without the time of day.
strftime(date) == << "date", date[1], 0 >>

\* str(n) of an integer.
str(n) == << "int", n, 0 >>

\* str(clean_pixels * 100 / pixel_count): the quotient, kept as a fraction.
str_percentage(clean_pixels, pixel_count) == << "float", clean_pixels * 100, pixel_count >>

\* Order of two acquisition times (datetime comparison).
Before(a, b) == a[1] < b[1] \/ (a[1] = b[1] /\ a[2] < b[2])

\* dates.sort(): the keys in ascending order.
RECURSIVE sort(_)
sort(S) ==
    IF S = {} THEN <<>>
    ELSE LET first == CHOOSE a \in S : \A b \in S \ {a} : Before(a, b)
         IN  << first >> \o sort(S \ {first})

\* The keys in ascending order, not reversed.
LoopDates_Ascending(meta) == sort(DOMAIN meta)

\* The dates the loop visits, in its order: reversed(dates) of the sorted keys.
LoopDates(meta) == Reversed(sort(DOMAIN meta))

\* s.rstrip(','): s without its trailing commas.
RECURSIVE rstrip(_)
rstrip(s) ==
    IF s # <<>> /\ s[Len(s)] = Comma THEN rstrip(SubSeq(s, 1, Len(s) - 1)) ELSE s

\* s.split(','): the fields of s between its commas; one empty field for "".
RECURSIVE split(_)
split(s) ==
    IF \A i \in 1..Len(s) : s[i] # Comma THEN << s >>
    ELSE LET i == CHOOSE k \in 1..Len(s) : s[k] = Comma /\ \A j \in 1..(k - 1) : s[j] # Comma
         IN  << SubSeq(s, 1, i - 1) >> \o split(SubSeq(s, i + 1, Len(s)))

\* Metadata.acquisition_list_as_list and its two siblings.
acquisition_list_as_list == split(rstrip(mfin.acquisition_list))

clean_pixels_list_as_list == split(rstrip(mfin.clean_pixels_per_acquisition))

clean_pixels_percentages_as_list == split(rstrip(mfin.clean_pixel_percentages_per_acquisition))

\* The merged metadata of a successful query has at least one acquisition;
\* the three strings of the new Metadata row are empty.
MetaInit ==
    /\ InitTask
    /\ fold = FoldIdle
    /\ conc = ConcIdle
    /\ loop = CursorIdle
    /\ \E keys \in (SUBSET Timestamps) \ { {} }, pixels \in 1..MaxPixels :
         \E am \in [keys -> 0..MaxCount] :
            mfin = [acquisition_metadata |-> am, pixel_count |-> pixels, step |-> "sort",
                    dates |-> <<>>, acquisition_list |-> <<>>,
                    clean_pixels_per_acquisition |-> <<>>,
                    clean_pixel_percentages_per_acquisition |-> <<>>]

\* dates = list(acquisition_metadata.keys()); dates.sort(); reversed(dates)
MetaSort ==
    /\ mfin.step = "sort"
    /\ mfin' = [mfin EXCEPT !.dates = LoopDates(mfin.acquisition_metadata), !.step = "loop"]
    /\ UNCHANGED << taskVars, fold, conc, loop >>

\* One pass of the loop: the three strings grow by one entry and a comma.
MetaAppend ==
    /\ mfin.step = "loop"
    /\ mfin.dates # <<>>
    /\ LET date == Head(mfin.dates)
           clean_pixels == mfin.acquisition_metadata[date]
       IN  mfin' = [mfin EXCEPT
                      !.acquisition_list = @ \o << strftime(date), Comma >>,
                      !.clean_pixels_per_acquisition = @ \o << str(clean_pixels), Comma >>,
                      !.clean_pixel_percentages_per_acquisition =
                          @ \o << str_percentage(clean_pixels, mfin.pixel_count), Comma >>,
                      !.dates = Tail(@)]
    /\ UNCHANGED << taskVars, fold, conc, loop >>

\* meta.save() after the loop.
MetaSave ==
    /\ mfin.step = "loop"
    /\ mfin.dates = <<>>
    /\ mfin' = [mfin EXCEPT !.step = "saved"]
    /\ UNCHANGED << taskVars, fold, conc, loop >>

MetaNext == MetaSort \/ MetaAppend \/ MetaSave

MetaSpec == MetaInit /\ [][MetaNext]_vars

\* ------------------------------------------------------------------ claims
WorkUnits == NGroups * nGeo

RecordsDeleted == db = {} /\ ~queryRec.exists /\ metaRec = "deleted"

\* C1: in every stored state of the Result row scenes_processed is at most
\* total_scenes, and no write of the row lowers scenes_processed.
C1_ProgressWithinTotal ==
    [][\A n \in db' : /\ n.scenes_processed <= n.total_scenes
                      /\ \A o \in db : o.scenes_processed <= n.scenes_processed]_vars

\* C2: once planning has set result.total_scenes to the number of work units,
\* no later step of the query changes it.
C2_TotalFixed ==
    [][pc \notin {"start", "metadata", "acquisitions", "plan"}
         => result'.total_scenes = result.total_scenes]_vars

\* C3: a stored status of OK or ERROR never changes again, and a Result row
\* deleted by the cancellation path is not stored again.
C3_TerminalStatusFinal ==
    [][/\ StoredStatus \in {"OK", "ERROR"} => StoredStatus' = StoredStatus
       /\ (hist.gotCancel /\ db = {}) => db' = {}]_vars

\* The case of C4: the status was CANCEL before the first poll of any worker,
\* a worker has polled since, and no write has replaced the CANCEL.
EarlyCancel == hist.early = "held" /\ hist.anyPolled

\* C4 (safety part): under an early cancel no worker writes a scratch file, no
\* output artifact is written, OK is never stored, and when the orchestrator
\* has returned the three records and the scratch directory are gone.
C4_EarlyCancelSafe ==
    EarlyCancel =>
        /\ ~hist.okSeen
        /\ tempFiles = {}
        /\ artifacts = {}
        /\ pc = "done" => RecordsDeleted /\ ~tempDir

\* C4: an early cancel is safe in every state, and the orchestrator returns
\* after it for every interleaving of the workers.
C4_EarlyCancelTerminates ==
    /\ []C4_EarlyCancelSafe
    /\ EarlyCancel ~> (pc = "done")

C4_Witness ==
    /\ EarlyCancel
    /\ pc = "done"
    /\ RecordsDeleted
    /\ WorkUnits >= 2
    /\ \A u \in Units : u[1] <= NGroups /\ u[2] <= nGeo => worker[u].ret = "CANCEL"

\* C5: when the orchestrator has returned and an output artifact has been
\* written, the stored status is OK.
C5_ArtifactsOnlyOnOK ==
    (pc = "done" /\ artifacts # {}) => StoredStatus = "OK"

\* C6: after an exception raised once the Result row exists, the orchestrator
\* returns with the stored status ERROR, the scratch directory removed and the
\* exception passed on to the caller.
C6_ExceptionSetsError ==
    (pc = "done" /\ hist.fault # "none") =>
        StoredStatus = "ERROR" /\ ~tempDir /\ raised

\* C7: after the catalog has returned no acquisition, no chunk task is queued,
\* no scratch directory or file exists, and the orchestrator returns with the
\* stored status ERROR and the no-acquisitions message.
C7_NoAcquisitions ==
    (hist.listed /\ acquisitions = 0) =>
        /\ \A u \in Units : worker[u].st = "idle"
        /\ ~tempDir
        /\ tempFiles = {}
        /\ pc = "done" =>
              \A r \in db : r.status = "ERROR" /\ r.result_path = NoAcquisitionsMessage
        /\ pc = "done" => db # {}

C7_Witness ==
    /\ hist.listed
    /\ acquisitions = 0
    /\ pc = "done"
    /\ StoredStatus = "ERROR"

\* C8: after the orchestrator has received CANCEL from a chunk it returns with
\* the three records deleted, the scratch directory and its files gone, no
\* artifact written, and scenes_processed not counted for that chunk.
C8_CancelAborts ==
    hist.gotCancel =>
        /\ artifacts = {}
        /\ result.scenes_processed = (ti - 1) * nGeo + (gi - 1)
        /\ pc = "done" => RecordsDeleted /\ ~tempDir /\ tempFiles = {}

\* C9: whenever the orchestrator awaits a result, the stored scenes_processed
\* is the number of results retrieved so far, Empty ones included, and it is
\* the number of work units when the stored status is OK.
C9_ProgressCount ==
    \A r \in db :
        /\ pc = "get" => r.scenes_processed = (ti - 1) * nGeo + (gi - 1)
        /\ r.status = "OK" => r.scenes_processed = WorkUnits

C9_Witness ==
    /\ StoredStatus = "OK"
    /\ WorkUnits = MaxUnits
    /\ \E u \in Units : worker[u].ret = "Empty"

\* The chunk results merged so far: the tiles of the time groups already folded.
MergedTiles == { u \in Units : u[1] <= Len(dataset_out) /\ worker[u].ret = "Tile" }

ReportedSum(d) == SumOver(MergedTiles, [u \in MergedTiles |-> GetOr0(worker[u].meta, d)])

\* C10: for every date the query-wide clean pixel count is the sum of the
\* counts the merged non-Empty chunk results report for it, and no step of the
\* query lowers a date's count.
C10_Additivity ==
    /\ [](\A d \in 1..MaxAcq : GetOr0(acquisition_metadata, d) = ReportedSum(d))
    /\ [][\A d \in 1..MaxAcq :
            GetOr0(acquisition_metadata, d) <= GetOr0(acquisition_metadata', d)]_vars

C10_Witness ==
    /\ StoredStatus = "OK"
    /\ \E d \in DOMAIN acquisition_metadata : acquisition_metadata[d] >= 2
    /\ Cardinality(MergedTiles) >= 2

\* The units the planner produced.
Planned(u) == u[1] <= NGroups /\ u[2] <= nGeo

\* C11: time group k is folded only when every chunk task of group k has
\* returned and been awaited, fold k holds tiles of group k only, and while
\* group ti is awaited exactly the groups before it have been folded.
C11_FoldAfterGroup ==
    /\ Len(dataset_out) <= NGroups
    /\ \A k \in 1..Len(dataset_out) :
          /\ \A g \in 1..nGeo : worker[<<k, g>>].st = "done"
          /\ \A i \in 1..Len(dataset_out[k]) : dataset_out[k][i][1] = k
    /\ pc \in {"get", "save", "merge"} => Len(dataset_out) = ti - 1

C11_Witness ==
    /\ Len(dataset_out) = 2
    /\ hist.outOfOrder

\* The non-Empty results of group k from chunk g downwards, highest chunk first.
RECURSIVE TilesDownFrom(_, _)
TilesDownFrom(k, g) ==
    IF g = 0 THEN <<>>
    ELSE (IF worker[<<k, g>>].ret = "Tile" THEN << <<k, g>> >> ELSE <<>>)
         \o TilesDownFrom(k, g - 1)

\* C12: the tiles concatenated for a time group are its non-Empty results in
\* descending geo-chunk index, whatever the order in which the tasks returned.
C12_ConcatByIndex ==
    \A k \in 1..Len(dataset_out) : dataset_out[k] = TilesDownFrom(k, nGeo)

C12_Witness ==
    /\ hist.outOfOrder
    /\ Len(dataset_out) = 1
    /\ Len(dataset_out[1]) = 2

\* C19: Query.complete starts false and no step changes it from true to false.
C19_CompleteMonotone ==
    /\ ~queryRec.complete
    /\ [][queryRec.complete => queryRec'.complete]_vars

C19_Witness ==
    /\ pc = "done"
    /\ queryRec.complete
    /\ hist.repeats = 1
    /\ StoredStatus = "OK"

\* C20 as stated: the running chunk tasks all belong to one time group, and
\* while the dispatch loop runs (no result awaited yet) only tasks of the first
\* time group have been queued.
C20_OneGroupInFlight ==
    /\ \A u, v \in Units :
          (worker[u].st = "run" /\ worker[v].st = "run") => u[1] = v[1]
    /\ pc = "dispatch" => \A u \in Units : worker[u].st # "idle" => u[1] = 1

\* C20 as amended: every planned chunk task of every time group is queued
\* before the first result is awaited, and the results are awaited group by
\* group: while group ti is awaited every task of an earlier group has returned.
C20_DispatchAllThenJoinInOrder ==
    pc \in {"get", "save", "merge"} =>
        \A u \in Units :
            Planned(u) => /\ worker[u].st # "idle"
                          /\ u[1] < ti => worker[u].st = "done"

C20_Witness ==
    /\ pc = "get"
    /\ ti = 1
    /\ worker[<<1, 1>>].st = "run"
    /\ worker[<<2, 1>>].st = "run"

\* The combination strategy of the query's compositor.
Method == Options.chunk_combination_method

\* The mosaic after all time groups were folded.
Folded == fold.k = Len(fold.groups) /\ fold.k > 0 /\ ~fold.raised

PixelsOf(r) == 1..Len(r.coords)

\* C13: a step of fill_nodata from no intermediate returns the new dataset;
\* otherwise every band and pixel of the result is the intermediate's value
\* where that is not nodata, and the new dataset's value where it is.
C13_FillNodata ==
    [][ (Method = "fill_nodata" /\ fold'.k = fold.k + 1) =>
            LET new == Raster(fold.k + 1)
                out == fold'.dataset_out[1]
            IN  IF fold.dataset_out = <<>> THEN out = new
                ELSE LET cur == fold.dataset_out[1]
                     IN  /\ out.coords = cur.coords
                         /\ \A b \in Bands, i \in PixelsOf(cur) :
                               out.px[b][i] = IF cur.px[b][i] # NoData THEN cur.px[b][i]
                                              ELSE new.px[b][i] ]_vars

C13_Witness ==
    /\ Method = "fill_nodata"
    /\ fold.k = 2
    /\ \E b \in Bands, i \in PixelsOf(Raster(1)) :
          /\ Raster(1).px[b][i] = NoData
          /\ Raster(2).px[b][i] # NoData
          /\ fold.dataset_out[1].px[b][i] = Raster(2).px[b][i]
    /\ \E b \in Bands, i \in PixelsOf(Raster(1)) :
          /\ Raster(1).px[b][i] # NoData
          /\ Raster(2).px[b][i] \notin {NoData, Raster(1).px[b][i]}
          /\ fold.dataset_out[1].px[b][i] = Raster(1).px[b][i]

\* The raster r covers geo chunk c; its value of band b there.
HasChunk(r, c) == \E i \in PixelsOf(r) : r.coords[i] = c

ValueAt(r, c, b) == r.px[b][CHOOSE i \in PixelsOf(r) : r.coords[i] = c]

\* The value of band b at chunk c in the first time group from j on whose
\* raster is not nodata there; nodata if there is none.
RECURSIVE FirstValid(_, _, _)
FirstValid(j, c, b) ==
    IF j > Len(fold.groups) THEN NoData
    ELSE IF HasChunk(Raster(j), c) /\ ValueAt(Raster(j), c, b) # NoData
         THEN ValueAt(Raster(j), c, b)
         ELSE FirstValid(j + 1, c, b)

\* C14: with fill_nodata every pixel of the final mosaic holds the value of the
\* lowest-indexed time group whose raster is not nodata at that pixel, and
\* nodata if no group has a value there.
C14_LowestGroupWins ==
    (Method = "fill_nodata" /\ Folded) =>
        LET out == fold.dataset_out[1]
        IN  \A b \in Bands, i \in PixelsOf(out) :
                out.px[b][i] = FirstValid(1, out.coords[i], b)

\* C15: where A and B hold different values, neither nodata, folding A then B
\* gives A's value and folding B then A gives B's value.
C15_OrderSensitive ==
    (Method = "fill_nodata" /\ fold.k = 2) =>
        LET A == Raster(1)
            B == Raster(2)
        IN  \A b \in Bands, i \in PixelsOf(A) :
                (A.px[b][i] # NoData /\ B.px[b][i] # NoData /\ A.px[b][i] # B.px[b][i]) =>
                    /\ fold.dataset_out[1].px[b][i] = A.px[b][i]
                    /\ fill_nodata(A, << fill_nodata(B, <<>>) >>).px[b][i] = B.px[b][i]

C15_Witness ==
    /\ Method = "fill_nodata"
    /\ fold.k = 2
    /\ \E b \in Bands, i \in PixelsOf(Raster(1)) :
          /\ Raster(1).px[b][i] # NoData
          /\ Raster(2).px[b][i] # NoData
          /\ Raster(1).px[b][i] # Raster(2).px[b][i]
          /\ fold.dataset_out[1].px[b][i] # Raster(2).px[b][i]

\* The new dataset wins pixel i against the intermediate on the criterion band.
NewWins(new, cur, i) ==
    IF Method = "max_value" THEN new.px["ndvi"][i] > cur.px["ndvi"][i]
    ELSE new.px["ndvi"][i] < cur.px["ndvi"][i]

\* C16: a step of max_value / min_value takes all bands of a pixel from the new
\* dataset where it wins on ndvi, and all from the intermediate otherwise.
C16_AllBandsFromOneOperand ==
    [][ (Method \in {"max_value", "min_value"} /\ fold'.k = fold.k + 1
            /\ fold.dataset_out # <<>>) =>
            LET new == Raster(fold.k + 1)
                cur == fold.dataset_out[1]
                out == fold'.dataset_out[1]
            IN  \A b \in Bands, i \in PixelsOf(cur) :
                    out.px[b][i] = IF NewWins(new, cur, i) THEN new.px[b][i]
                                   ELSE cur.px[b][i] ]_vars

\* Folding y after x, and the rasters over the grid of r.
Then(x, y) == chunk_combination_method(y, << x >>)

RastersOn(r) ==
    { [coords |-> r.coords, px |-> p] : p \in [Bands -> [PixelsOf(r) -> Values]] }

\* C17 as stated: with max_value / min_value the folds of [A, B] and [B, A] are
\* identical on every band, folding is independent of grouping, and folding A
\* with itself returns A.
C17_CommutativeAllBands ==
    (Method \in {"max_value", "min_value"} /\ fold.k = 2) =>
        LET A == Raster(1)
            B == Raster(2)
        IN  /\ fold.dataset_out[1] = Then(B, A)
            /\ \A C \in RastersOn(A) : Then(Then(A, B), C) = Then(A, Then(B, C))
            /\ Then(A, A) = A

\* The better of two criterion values.
Best(x, y) ==
    IF Method = "max_value" THEN (IF x > y THEN x ELSE y) ELSE (IF x < y THEN x ELSE y)

\* C17 as amended: on the criterion band the fold is the pixel-wise maximum /
\* minimum, hence the same for [A, B] and [B, A] and for every grouping, and
\* folding A with itself returns A on every band.
C17_CommutativeOnCriterion ==
    (Method \in {"max_value", "min_value"} /\ fold.k = 2) =>
        LET A == Raster(1)
            B == Raster(2)
        IN  /\ \A i \in PixelsOf(A) :
                  /\ fold.dataset_out[1].px["ndvi"][i] = Best(A.px["ndvi"][i], B.px["ndvi"][i])
                  /\ Then(B, A).px["ndvi"][i] = fold.dataset_out[1].px["ndvi"][i]
            /\ \A C \in RastersOn(A) :
                  Then(Then(A, B), C).px["ndvi"] = Then(A, Then(B, C)).px["ndvi"]
            /\ Then(A, A) = A

C17_Witness ==
    /\ Method \in {"max_value", "min_value"}
    /\ fold.k = 2
    /\ \E i \in PixelsOf(Raster(1)) :
          /\ Raster(1).px["ndvi"][i] = Raster(2).px["ndvi"][i]
          /\ Raster(1).px["red"][i] # Raster(2).px["red"][i]
          /\ fold.dataset_out[1].px["red"][i] = Raster(1).px["red"][i]
    /\ \E i \in PixelsOf(Raster(1)) :
          /\ Raster(1).px["ndvi"][i] # Raster(2).px["ndvi"][i]
          /\ fold.dataset_out[1].px["ndvi"][i] = Raster(2).px["ndvi"][i]

\* Invocation j is between the start of its processing and its end.
InFlight(j) == conc.inv[j].pc \in {"mkdir", "chunk", "rmtree", "handler"}

\* The scratch directory of invocation j: whether it exists, and its files.
Scratch(j) == << Path(j) \in conc.dirs, FilesIn(Path(j)) >>

\* C18: while an invocation is in flight, no step of another invocation
\* creates, writes or removes anything in its scratch directory.
C18_ScratchExclusive ==
    [][ \A j \in Invocations :
            (InFlight(j) /\ conc'.inv[j] = conc.inv[j]) => Scratch(j)' = Scratch(j) ]_vars

\* C21: once a chunk task has been dispatched, and while the results are
\* joined, the stored Result row holds the number of work units as its total
\* and a status other than the initial WAIT.
C21_LedgerSetBeforeDispatch ==
    (pc \in {"dispatch", "get", "save", "merge"} /\ \E u \in Units : worker[u].st # "idle") =>
        \A r \in db : r.total_scenes = WorkUnits /\ r.status # "WAIT"

\* C22: a time group whose chunks are all Empty does not end the query in the
\* handler when a chunk of some time group returned a tile.
C22_EmptyGroupSkipped ==
    ~(/\ hist.fault = "empty_group"
      /\ \E u \in Units : Planned(u) /\ worker[u].ret = "Tile")

\* C23: a pass of the worker's loop whose poll reads CANCEL ends the task with
\* the return value CANCEL: the cursor, the intermediate and the metadata stay
\* as they were and no scratch file is written.
C23_CancelStopsWorker ==
    [][ \A u \in Units :
            (/\ worker[u].st = "run"
             /\ worker'[u] # worker[u]
             /\ worker[u].time_index < Len(acquisition_list(u))
             /\ Cardinality(db) = 1
             /\ StoredStatus = "CANCEL") =>
                /\ worker'[u] = [worker[u] EXCEPT !.st = "done", !.ret = "CANCEL"]
                /\ tempFiles' = tempFiles ]_vars

C23_Witness ==
    \E u \in Units :
        /\ worker[u].ret = "CANCEL"
        /\ worker[u].iteration_data
        /\ worker[u].time_index > 0
        /\ geo_path(u) \notin tempFiles

\* C27: a task that leaves its loop without a mosaic returns Empty and writes
\* nothing; a task that returns a tile had a mosaic and wrote exactly the file
\* of its unit; the files of two different units differ.
C27_OneFilePerUnit ==
    /\ \A u, v \in Units : u # v => geo_path(u) # geo_path(v)
    /\ [][ \A u \in Units :
              (worker[u].st = "run" /\ worker'[u].st = "done") =>
                  /\ worker'[u].ret = "Empty" =>
                        ~worker[u].iteration_data /\ tempFiles' = tempFiles
                  /\ worker'[u].ret = "Tile" =>
                        /\ worker[u].iteration_data
                        /\ tempFiles' = tempFiles \cup {geo_path(u)}
                        /\ worker'[u].meta = worker[u].meta
                  /\ (worker[u].time_index >= Len(acquisition_list(u))
                        /\ ~worker[u].iteration_data) => worker'[u].ret = "Empty" ]_vars

C27_Witness ==
    /\ Cardinality(tempFiles) = 2
    /\ \A u \in Units : Planned(u) => worker[u].ret = "Tile"

\* C29: the orchestrator's progress write leaves a stored CANCEL in place.
C29_ProgressKeepsCancel ==
    [][ (pc = "save" /\ db' # db /\ StoredStatus = "CANCEL") =>
            StoredStatus' = "CANCEL" ]_vars

\* C30: when the chunk task could not read the Result row and returned None,
\* the orchestrator does not enter the handler and end with status ERROR.
C30_UnreadableLedgerIsCancel ==
    \A i \in Invocations :
        conc.inv[i].tile = "None" => conc.inv[i].pc \notin {"handler", "error"}

\* The dates at the cursor positions t .. min(t + n, L) - 1 of the task's list.
Positions(t) ==
    LET n == Options.time_slices_per_iteration
        last == IF t + n < LoopLen THEN t + n - 1 ELSE LoopLen - 1
    IN  { ListAt(i) : i \in t..last }

\* ceil(L / n)
CeilDiv(l, n) == (l + n - 1) \div n

\* C24: with time_slices_per_iteration = n set, the window fetched at cursor t
\* holds exactly the acquisitions at the positions t .. min(t + n, L) - 1 of
\* the time group, for both reverse_time settings; the task fails in no
\* iteration and its loop ends after ceil(L / n) iterations.
C24_WindowIsCursorRange ==
    Options.time_slices_per_iteration # NoneVal =>
        /\ \A j \in 1..Len(loop.fetched) :
             Slices(loop.fetched[j]) =
                 Positions((j - 1) * Options.time_slices_per_iteration)
        /\ loop.ret # "FAILED"
        /\ loop.ret \in {"Tile", "Empty"} =>
             loop.iterations = CeilDiv(LoopLen, Options.time_slices_per_iteration)

\* The cursor positions counted by the tally of iteration record y.
TalliedAt(y) == y.at .. (y.at + y.shape - 1)

\* C25: with time_slices_per_iteration unset, the loop makes one iteration
\* whatever the length of the group: after the first iteration the cursor is
\* at or past the end, there is no second fetch, and no position is tallied
\* twice.
C25_UnsetIsOneIteration ==
    Options.time_slices_per_iteration = NoneVal =>
        /\ loop.iterations >= 1 => loop.time_index >= LoopLen
        /\ Len(loop.fetched) <= 1
        /\ \A j, k \in 1..Len(loop.tallies) :
             j # k => TalliedAt(loop.tallies[j]) \cap TalliedAt(loop.tallies[k]) = {}

\* C26: an iteration whose window has no cf_mask advances the cursor by the
\* step of a normal iteration and continues; the intermediate and the
\* acquisition metadata of the task are as before, and the task has not failed.
C26_SkipOnlyAdvances ==
    [][ (loop'.iterations = loop.iterations + 1 /\ loop'.last = "skip") =>
            /\ loop'.time_index = loop.time_index + Step(Options)
            /\ loop'.iteration_data = loop.iteration_data
            /\ loop'.tallies = loop.tallies
            /\ loop'.ret = "pending" ]_vars

\* A window was skipped after another had been folded, and the loop goes on.
C26_Witness ==
    /\ loop.last = "skip"
    /\ loop.iteration_data
    /\ loop.tallies # <<>>
    /\ loop.ret = "pending"
    /\ loop.time_index < LoopLen

\* The keys of the merged metadata, most recent first.
NewestFirst == Reversed(sort(DOMAIN mfin.acquisition_metadata))

\* The three lists have the length n.
ListsOfLength(n) ==
    /\ Len(acquisition_list_as_list) = n
    /\ Len(clean_pixels_list_as_list) = n
    /\ Len(clean_pixels_percentages_as_list) = n

\* C28 as stated: after the save the three lists have equal length, one entry
\* per distinct calendar date observed, the date entries strictly monotone,
\* and the i-th count and percentage are those of the i-th date.
C28_OnePerDateStrict ==
    mfin.step = "saved" =>
        LET days == { d[1] : d \in DOMAIN mfin.acquisition_metadata }
            A == acquisition_list_as_list
            P == clean_pixels_list_as_list
            Q == clean_pixels_percentages_as_list
        IN  /\ ListsOfLength(Cardinality(days))
            /\ \/ \A i, j \in 1..Len(A) : i < j => A[i][1][2] < A[j][1][2]
               \/ \A i, j \in 1..Len(A) : i < j => A[i][1][2] > A[j][1][2]
            /\ \A i \in 1..Len(A) :
                 \E d \in DOMAIN mfin.acquisition_metadata :
                    /\ A[i] = << strftime(d) >>
                    /\ P[i] = << str(mfin.acquisition_metadata[d]) >>
                    /\ Q[i] = << str_percentage(mfin.acquisition_metadata[d], mfin.pixel_count) >>

\* C28, amended: after the save the three lists have equal length, one entry
\* per distinct acquisition time, most recent first; the i-th date entry is
\* the calendar day of the i-th acquisition time (so the date entries never
\* increase, and repeat for acquisitions of one day), and the i-th count and
\* percentage are those of the i-th acquisition time.
C28_OnePerAcquisitionNewestFirst ==
    mfin.step = "saved" =>
        LET am == mfin.acquisition_metadata
            A == acquisition_list_as_list
            P == clean_pixels_list_as_list
            Q == clean_pixels_percentages_as_list
            S == NewestFirst
        IN  /\ ListsOfLength(Cardinality(DOMAIN am))
            /\ \A i \in 1..Len(S) :
                 /\ A[i] = << << "date", S[i][1], 0 >> >>
                 /\ P[i] = << << "int", am[S[i]], 0 >> >>
                 /\ Q[i] = << << "float", am[S[i]] * 100, mfin.pixel_count >> >>
            /\ \A i, j \in 1..Len(S) : i < j => Before(S[j], S[i])
            /\ \A i, j \in 1..Len(A) : i < j => A[i][1][2] >= A[j][1][2]

\* Saved with three acquisitions, two of them on one day, with different counts.
C28_Witness ==
    /\ mfin.step = "saved"
    /\ Cardinality(DOMAIN mfin.acquisition_metadata) = 3
    /\ \E a, b \in DOMAIN mfin.acquisition_metadata :
         /\ a # b
         /\ a[1] = b[1]
         /\ mfin.acquisition_metadata[a] # mfin.acquisition_metadata[b]

\* C31: a Query record that is marked complete has a Result row whose status
\* is OK, in every state, also when the mark comes from the repeat-query path.
C31_CompleteOnlyWhenOK ==
    (queryRec.exists /\ queryRec.complete) => (Cardinality(db) = 1 /\ StoredStatus = "OK")

====
